---------------------------- MODULE Spec2Model ----------------------------
(***************************************************************************)
(* Model of tracy/client/TracyTimer.hpp and tracy/common/TracyYield.hpp.   *)
(*                                                                         *)
(* The timer header is 64-bit integer arithmetic on counters as large as   *)
(* 2^63, so the model carries its own integers: a natural number is a      *)
(* little-endian sequence of limbs in base 10^4 without leading zero       *)
(* limbs, and an integer is a sign and a magnitude.  int64_t values are    *)
(* such integers in [-2^63, 2^63).                                         *)
(***************************************************************************)
EXTENDS Integers, Sequences, FiniteSets, TLC

\* ------------------------------------------------------------------------
\* Natural numbers of arbitrary size
\* ------------------------------------------------------------------------

Base == 10^4

Max(a, b) == IF a >= b THEN a ELSE b

Min(a, b) == IF a <= b THEN a ELSE b

Limb(m, i) == IF i <= Len(m) THEN m[i] ELSE 0

RECURSIVE Trim(_)
Trim(m) ==
    IF m = <<>> THEN m
    ELSE IF m[Len(m)] = 0 THEN Trim(SubSeq(m, 1, Len(m) - 1))
    ELSE m

RECURSIVE NatOf(_)
NatOf(n) == IF n = 0 THEN <<>> ELSE <<n % Base>> \o NatOf(n \div Base)

RECURSIVE NatAddFrom(_, _, _, _)
NatAddFrom(a, b, i, carry) ==
    IF i > Max(Len(a), Len(b))
    THEN (IF carry = 0 THEN <<>> ELSE <<carry>>)
    ELSE LET s == Limb(a, i) + Limb(b, i) + carry
         IN  <<s % Base>> \o NatAddFrom(a, b, i + 1, s \div Base)

NatAdd(a, b) == NatAddFrom(a, b, 1, 0)

RECURSIVE NatCmpFrom(_, _, _)
NatCmpFrom(a, b, i) ==
    IF i = 0 THEN 0
    ELSE IF a[i] < b[i] THEN -1
    ELSE IF a[i] > b[i] THEN 1
    ELSE NatCmpFrom(a, b, i - 1)

\* -1, 0 or 1 as a < b, a = b, a > b
NatCmp(a, b) ==
    IF Len(a) < Len(b) THEN -1
    ELSE IF Len(a) > Len(b) THEN 1
    ELSE NatCmpFrom(a, b, Len(a))

NatLt(a, b) == NatCmp(a, b) < 0
NatLe(a, b) == NatCmp(a, b) <= 0

RECURSIVE NatSubFrom(_, _, _, _)
NatSubFrom(a, b, i, borrow) ==
    IF i > Len(a) THEN <<>>
    ELSE LET d == a[i] - Limb(b, i) - borrow
         IN  IF d < 0
             THEN <<d + Base>> \o NatSubFrom(a, b, i + 1, 1)
             ELSE <<d>> \o NatSubFrom(a, b, i + 1, 0)

\* a - b for a >= b
NatSub(a, b) == Trim(NatSubFrom(a, b, 1, 0))

RECURSIVE NatMulLimb(_, _, _, _)
NatMulLimb(a, d, i, carry) ==
    IF i > Len(a)
    THEN (IF carry = 0 THEN <<>> ELSE <<carry>>)
    ELSE LET p == a[i] * d + carry
         IN  <<p % Base>> \o NatMulLimb(a, d, i + 1, p \div Base)

\* m * Base
ShiftLimb(m) == IF m = <<>> THEN <<>> ELSE <<0>> \o m

RECURSIVE NatMulFrom(_, _, _)
NatMulFrom(a, b, j) ==
    IF j > Len(b) THEN <<>>
    ELSE NatAdd(Trim(NatMulLimb(a, b[j], 1, 0)), ShiftLimb(NatMulFrom(a, b, j + 1)))

NatMul(a, b) == IF a = <<>> \/ b = <<>> THEN <<>> ELSE NatMulFrom(a, b, 1)

NatMulSmall(a, d) == Trim(NatMulLimb(a, d, 1, 0))

\* the largest d in lo..hi with d * b <= r, given lo * b <= r
RECURSIVE QuotientLimb(_, _, _, _)
QuotientLimb(r, b, lo, hi) ==
    IF lo = hi THEN lo
    ELSE LET mid == (lo + hi + 1) \div 2
         IN  IF NatLe(NatMulSmall(b, mid), r)
             THEN QuotientLimb(r, b, mid, hi)
             ELSE QuotientLimb(r, b, lo, mid - 1)

\* the limbs n+1 and n of r as one number
TopTwo(r, n) == Limb(r, n + 1) * Base + Limb(r, n)

\* bounds on the quotient of r by b for r < b * Base, from the leading
\* limb of b and the limbs of r above it
QuotientLow(r, b) ==
    IF Len(b) = 1
    THEN TopTwo(r, 1) \div b[1]
    ELSE TopTwo(r, Len(b)) \div (b[Len(b)] + 1)

QuotientHigh(r, b) == Min(Base - 1, TopTwo(r, Len(b)) \div b[Len(b)])

\* Long division from the most significant limb of a down: the limbs 1..i
\* of a remain, q holds the quotient limbs found so far and r the remainder
\* so far, r < b.
RECURSIVE DivLoop(_, _, _, _, _)

DivTake(a, b, i, q, r, d) ==
    DivLoop(a, b, i - 1, <<d>> \o q, NatSub(r, NatMulSmall(b, d)))

DivStep(a, b, i, q, r) ==
    IF NatLt(r, b)
    THEN DivLoop(a, b, i - 1, <<0>> \o q, r)
    ELSE DivTake(a, b, i, q, r,
                 QuotientLimb(r, b, QuotientLow(r, b), QuotientHigh(r, b)))

DivLoop(a, b, i, q, r) ==
    IF i = 0 THEN <<Trim(q), r>>
    ELSE DivStep(a, b, i, q, Trim(<<a[i]>> \o r))

\* <<quotient, remainder>> of a by b > 0
NatDivMod(a, b) ==
    IF NatLt(a, b) THEN <<(<<>>), a>> ELSE DivLoop(a, b, Len(a), <<>>, <<>>)

\* ------------------------------------------------------------------------
\* Integers: sign and magnitude; zero is never negative
\* ------------------------------------------------------------------------

Mk(neg, mag) == [neg |-> neg /\ mag # <<>>, mag |-> mag]

IntOf(n) == IF n < 0 THEN Mk(TRUE, NatOf(-n)) ELSE Mk(FALSE, NatOf(n))

Zero == IntOf(0)

Neg(x) == Mk(~x.neg, x.mag)

IAdd(x, y) ==
    IF x.neg = y.neg THEN Mk(x.neg, NatAdd(x.mag, y.mag))
    ELSE IF NatLe(y.mag, x.mag) THEN Mk(x.neg, NatSub(x.mag, y.mag))
    ELSE Mk(y.neg, NatSub(y.mag, x.mag))

ISub(x, y) == IAdd(x, Neg(y))

IMul(x, y) == Mk(x.neg # y.neg, NatMul(x.mag, y.mag))

ILe(x, y) ==
    IF x.neg /\ ~y.neg THEN TRUE
    ELSE IF ~x.neg /\ y.neg THEN FALSE
    ELSE IF x.neg THEN NatLe(y.mag, x.mag)
    ELSE NatLe(x.mag, y.mag)

ILt(x, y) == ILe(x, y) /\ x # y

\* floor(x / y) and x - y * floor(x / y), for y > 0
FloorOf(neg, qr) ==
    IF ~neg THEN Mk(FALSE, qr[1])
    ELSE IF qr[2] = <<>> THEN Mk(TRUE, qr[1])
    ELSE Mk(TRUE, NatAdd(qr[1], NatOf(1)))

IFloorDiv(x, y) == FloorOf(x.neg, NatDivMod(x.mag, y.mag))

IFloorMod(x, y) == ISub(x, IMul(y, IFloorDiv(x, y)))


\* An integer written as its groups of four decimal digits, most significant
\* first: Lit(<<12, 3456, 7890>>) is 1234567890
RECURSIVE LitMag(_)
LitMag(g) ==
    IF g = <<>> THEN <<>>
    ELSE NatAdd(NatMul(LitMag(SubSeq(g, 1, Len(g) - 1)), NatOf(10000)), NatOf(g[Len(g)]))

Lit(g) == Mk(FALSE, LitMag(g))

\* ------------------------------------------------------------------------
\* int64_t
\* ------------------------------------------------------------------------

Two63 == LitMag(<<922, 3372, 368, 5477, 5808>>)
Two64 == LitMag(<<1844, 6744, 737, 955, 1616>>)

INT64_MAX == Mk(FALSE, NatSub(Two63, NatOf(1)))
INT64_MIN == Mk(TRUE, Two63)

InInt64(x) == ILe(INT64_MIN, x) /\ ILe(x, INT64_MAX)

\* the 64 low bits of x read as a two's complement number
Signed64(r) == IF NatLt(r.mag, Two63) THEN r ELSE ISub(r, Mk(FALSE, Two64))

Wrap64(x) ==
    IF InInt64(x) THEN x ELSE Signed64(IFloorMod(x, Mk(FALSE, Two64)))

\* C++ integer division truncates toward zero
TDiv(x, y) == Mk(x.neg # y.neg, NatDivMod(x.mag, y.mag)[1])

VARIABLES
    build,      \* what the build makes of undefined behaviour
    sfreq,      \* scaling harness: the frequency argument
    scounter,   \* scaling harness: the counter argument
    scounter2,  \* scaling harness: a later counter reading
    spc,        \* scaling harness: how many of the calls below were made
    ssteps,     \* scaling harness: the intermediate results of the first call
    sres,       \* scaling harness: the outcome of each call
    predefined, \* preprocessor: the macros defined before TracyTimer.hpp
    defined,    \* preprocessor: the macros defined now
    ppc,        \* preprocessor: the line of TracyTimer.hpp reached
    structs,    \* preprocessor: the clock structs declared so far
    alias,      \* preprocessor: what high_res_time names
    ytarget,    \* yield: the macros defined before TracyYield.hpp
    yheader,    \* yield: what lines 4-10 of TracyYield.hpp bring in
    yinstr,     \* yield: the statement YieldThread() was compiled to
    yiter,      \* yield: per thread, the loop iterations completed
    ylast,      \* yield: per thread, the hint last executed
    ydone,      \* yield: per thread, whether the loop has been left
    clk,        \* now(): the clock struct whose now() the threads call
    osok,       \* now(): whether the platform's OS timing calls succeed
    hwfreq,     \* now(): the frequency the hardware or the OS reports
    tick,       \* now(): which of the readings the counter shows
    pc,         \* now(): per thread, the statement of now() reached
    loc,        \* now(): per thread, the locals of now()
    hist        \* now(): per thread, the calls that returned, in order

scaleVars == <<sfreq, scounter, scounter2, spc, ssteps, sres>>
selectVars == <<predefined, defined, ppc, structs, alias>>
yieldVars == <<ytarget, yheader, yinstr, yiter, ylast, ydone>>
nowVars == <<clk, osok, hwfreq, tick, pc, loc, hist>>

vars == <<build, scaleVars, selectVars, yieldVars, nowVars>>

\* ------------------------------------------------------------------------
\* TracyTimer.hpp: scaling arithmetic
\* ------------------------------------------------------------------------

\* std::chrono::nanoseconds::period::den
period_den == IntOf(1000000000)

\* Division by zero and signed overflow are undefined.  The builds differ in
\* what they make of them: x86 idiv raises a divide error on a zero divisor
\* and on INT64_MIN / -1, AArch64 sdiv yields 0 for a zero divisor and wraps;
\* signed overflow of * and + wraps, or traps when the build is -ftrapv.
Builds == [arch : {"x86", "aarch64"}, ftrapv : BOOLEAN]

\* the machine's signed division
SDiv(x, y) == IF y = Zero THEN Zero ELSE Wrap64(TDiv(x, y))

DivFault(x, y) == y = Zero \/ (y = IntOf(-1) /\ x = INT64_MIN)

\* A faulty ScaleSum: the fractional part is left out of the result.
ScaleSumWholeOnly(whole, prod, part) ==
    [whole |-> whole, prod |-> prod, part |-> part, sum |-> whole]

\* The statements of clock_scale_generic.  whole, prod and sum are the
\* mathematical values of (_counter / _freq) * _period_den,
\* (_counter % _freq) * _period_den and whole + part, before they are
\* stored in an int64_t.
ScaleSum(whole, prod, part) ==
    [whole |-> whole, prod |-> prod, part |-> part,
     sum |-> IAdd(Wrap64(whole), part)]

ScalePart(_freq, whole, prod) ==
    ScaleSum(whole, prod, SDiv(Wrap64(prod), _freq))

\* A faulty ScaleWhole: the counter itself, not its remainder modulo the
\* frequency, is multiplied by the period.
ScaleWholeUnsplit(_freq, _counter, _period_den, quot) ==
    ScalePart(_freq, IMul(quot, _period_den), IMul(_counter, _period_den))

ScaleWhole(_freq, _counter, _period_den, quot) ==
    ScalePart(_freq,
              IMul(quot, _period_den),
              IMul(Wrap64(ISub(_counter, IMul(quot, _freq))), _period_den))

ScaleSteps(_freq, _counter, _period_den) ==
    ScaleWhole(_freq, _counter, _period_den, SDiv(_counter, _freq))

NoOverflow(steps) ==
    InInt64(steps.whole) /\ InInt64(steps.prod) /\ InInt64(steps.sum)

Returned(v) == [st |-> "ret", val |-> v]
Trapped == [st |-> "trap", val |-> Zero]
NotCalled == [st |-> "none", val |-> Zero]

ScaleOutcome(_freq, _counter, steps) ==
    IF /\ build.arch = "x86"
       /\ DivFault(_counter, _freq) \/ DivFault(Wrap64(steps.prod), _freq)
    THEN Trapped
    ELSE IF build.ftrapv /\ ~NoOverflow(steps)
    THEN Trapped
    ELSE Returned(Wrap64(steps.sum))

\* A faulty clock_scale_generic: the naive (counter * period_den) / freq.
clock_scale_naive(_freq, _counter, _period_den) ==
    Returned(SDiv(Wrap64(IMul(_counter, _period_den)), _freq))

clock_scale_generic(_freq, _counter, _period_den) ==
    ScaleOutcome(_freq, _counter, ScaleSteps(_freq, _counter, _period_den))

clock_scale_10MHz(_counter, _period_den) ==
    clock_scale_generic(IntOf(10000000), _counter, _period_den)

\* A faulty clock_scale_24MHz: a digit of the constant is missing.
clock_scale_2400kHz(_counter, _period_den) ==
    clock_scale_generic(IntOf(2400000), _counter, _period_den)

clock_scale_24MHz(_counter, _period_den) ==
    clock_scale_generic(IntOf(24000000), _counter, _period_den)

\* A faulty qpc_scale_dispatch: a zero frequency is caught and 0 returned.
qpc_scale_dispatch_guarded(_freq, _counter) ==
    IF _freq = Zero
    THEN Returned(Zero)
    ELSE clock_scale_generic(_freq, _counter, period_den)

qpc_scale_dispatch(_freq, _counter) ==
    CASE _freq = IntOf(10000000) -> clock_scale_10MHz(_counter, period_den)
      [] _freq = IntOf(24000000) -> clock_scale_24MHz(_counter, period_den)
      [] OTHER -> clock_scale_generic(_freq, _counter, period_den)

\* A faulty cpu_clock_scale_dispatch: the two arguments are exchanged.
cpu_clock_scale_dispatch_swapped(_freq, _counter) ==
    clock_scale_generic(_counter, _freq, period_den)

cpu_clock_scale_dispatch(_freq, _counter) ==
    CASE _freq = IntOf(24000000) -> clock_scale_24MHz(_counter, period_den)
      [] OTHER -> clock_scale_generic(_freq, _counter, period_den)

\* ------------------------------------------------------------------------
\* The scaling functions applied to enumerated arguments
\* ------------------------------------------------------------------------

\* the largest frequency f with f * 10^9 <= INT64_MAX: 9223372036
MaxFreq == Mk(FALSE, NatDivMod(INT64_MAX.mag, period_den.mag)[1])

\* the largest 10 MHz counter whose nanoseconds fit: 92233720368547758
MaxCounter10MHz == Mk(FALSE, NatDivMod(INT64_MAX.mag, NatOf(100))[1])

Two62 == Lit(<<461, 1686, 184, 2738, 7904>>)

ScaleFreqs ==
    { IntOf(1), IntOf(3), IntOf(10000000), IntOf(24000000), IntOf(1000000000),
      MaxFreq, IAdd(MaxFreq, IntOf(1)), Lit(<<100, 0, 0>>) }

ScaleCounters ==
    { IntOf(-123456789), IntOf(0), IntOf(1), IntOf(123456789),
      Lit(<<99, 9999, 9999>>), MaxCounter10MHz, IAdd(MaxCounter10MHz, IntOf(1)),
      ISub(Two62, IntOf(1)), Two62 }

\* ------------------------------------------------------------------------
\* TracyTimer.hpp: the conditional compilation that declares the clocks and
\* selects high_res_time
\* ------------------------------------------------------------------------

\* the macros the conditionals of TracyTimer.hpp test
TimerMacros ==
    { "TRACY_TIMER_FALLBACK", "_M_ARM64", "__aarch64__", "__clang__",
      "CLOCK_MONOTONIC_RAW", "CLOCK_MONOTONIC", "_WIN32",
      "TRACY_HAVE_CPU_CLOCK", "TRACY_HAVE_CPU_CLOCK_KNOWN_FREQUENCY" }

CpuClockMacros == {"TRACY_HAVE_CPU_CLOCK", "TRACY_HAVE_CPU_CLOCK_KNOWN_FREQUENCY"}

\* lines 40-41
UndefCpuClock(d) == d \ CpuClockMacros

\* lines 99-119: the MSVC intrinsic readers
CpuClockMsvc(d) ==
    IF "TRACY_HAVE_CPU_CLOCK" \notin d /\ "_M_ARM64" \in d
    THEN d \cup CpuClockMacros
    ELSE d

\* lines 121-140: the inline assembly readers
CpuClockAsm(d) ==
    IF /\ "TRACY_HAVE_CPU_CLOCK" \notin d
       /\ \/ "__aarch64__" \in d
          \/ ("_M_ARM64" \in d /\ "__clang__" \in d)
    THEN d \cup CpuClockMacros
    ELSE d

\* lines 150-247: the clock structs the header declares
ClockStructs(d) ==
    {c \in {"monotonic_raw", "monotonic", "win32_performance_counter", "cpu_clock"} :
        \/ c = "monotonic_raw" /\ "CLOCK_MONOTONIC_RAW" \in d
        \/ c = "monotonic" /\ "CLOCK_MONOTONIC" \in d
        \/ c = "win32_performance_counter" /\ "_WIN32" \in d
        \/ c = "cpu_clock" /\ "TRACY_HAVE_CPU_CLOCK_KNOWN_FREQUENCY" \in d}

\* A faulty high_res_time: the two clock_gettime branches are exchanged.
high_res_time_reordered(d) ==
    IF "TRACY_TIMER_FALLBACK" \in d THEN "std::chrono::steady_clock"
    ELSE IF "TRACY_HAVE_CPU_CLOCK_KNOWN_FREQUENCY" \in d THEN "cpu_clock"
    ELSE IF "CLOCK_MONOTONIC" \in d THEN "monotonic"
    ELSE IF "CLOCK_MONOTONIC_RAW" \in d THEN "monotonic_raw"
    ELSE IF "_WIN32" \in d THEN "win32_performance_counter"
    ELSE "std::chrono::steady_clock"

\* lines 251-269
high_res_time(d) ==
    IF "TRACY_TIMER_FALLBACK" \in d THEN "std::chrono::steady_clock"
    ELSE IF "TRACY_HAVE_CPU_CLOCK_KNOWN_FREQUENCY" \in d THEN "cpu_clock"
    ELSE IF "CLOCK_MONOTONIC_RAW" \in d THEN "monotonic_raw"
    ELSE IF "CLOCK_MONOTONIC" \in d THEN "monotonic"
    ELSE IF "_WIN32" \in d THEN "win32_performance_counter"
    ELSE "std::chrono::steady_clock"

SelectIdle ==
    /\ predefined = {}
    /\ defined = {}
    /\ ppc = "idle"
    /\ structs = {}
    /\ alias = "none"

SelectInit ==
    /\ predefined \in SUBSET TimerMacros
    /\ defined = predefined
    /\ ppc = "line 40"
    /\ structs = {}
    /\ alias = "none"

Preprocess(from, to, d, s, a) ==
    /\ ppc = from
    /\ ppc' = to
    /\ defined' = d
    /\ structs' = s
    /\ alias' = a
    /\ UNCHANGED <<predefined, build, scaleVars, yieldVars, nowVars>>

PpUndef ==
    Preprocess("line 40", "line 99", UndefCpuClock(defined), structs, alias)

PpCpuClockMsvc ==
    Preprocess("line 99", "line 121", CpuClockMsvc(defined), structs, alias)

PpCpuClockAsm ==
    Preprocess("line 121", "line 150", CpuClockAsm(defined), structs, alias)

PpClockStructs ==
    Preprocess("line 150", "line 251", defined, ClockStructs(defined), alias)

PpHighResTime ==
    Preprocess("line 251", "line 273", defined, structs, high_res_time(defined))

\* lines 273-276
PpLeave ==
    Preprocess("line 273", "done", UndefCpuClock(defined), structs, alias)

SelectNext ==
    \/ PpUndef
    \/ PpCpuClockMsvc
    \/ PpCpuClockAsm
    \/ PpClockStructs
    \/ PpHighResTime
    \/ PpLeave

\* ------------------------------------------------------------------------
\* TracyYield.hpp
\* ------------------------------------------------------------------------

YieldThreadCount == 2
LoopIterations == 2

YieldThreads == 1..YieldThreadCount

X86Macros == {"__SSE2__", "_M_AMD64", "_M_IX86_FP == 2"}
Arm32Macros == {"_M_ARM", "__arm__"}
Arm64Macros == {"_M_ARM64", "__aarch64__"}

YieldMacros == X86Macros \cup Arm32Macros \cup Arm64Macros \cup {"_MSC_VER"}

\* a target is an x86, a 32-bit ARM, a 64-bit ARM or another architecture
YieldTargets ==
    {m \in SUBSET YieldMacros :
        Cardinality({a \in {X86Macros, Arm32Macros, Arm64Macros} : m \cap a # {}}) <= 1}

\* lines 4-10
YieldInclude(m) ==
    IF "__SSE2__" \in m \/ "_M_AMD64" \in m \/ "_M_IX86_FP == 2" \in m
    THEN "<emmintrin.h>"
    ELSE IF "_MSC_VER" \in m /\ ("_M_ARM" \in m \/ "_M_ARM64" \in m)
    THEN "intrinsic(__yield)"
    ELSE "<thread>"

\* A faulty YieldBody: the __aarch64__ branch is tested before the MSVC one.
YieldBodyReordered(m) ==
    IF "__SSE2__" \in m \/ "_M_AMD64" \in m \/ "_M_IX86_FP == 2" \in m
    THEN "_mm_pause"
    ELSE IF "__aarch64__" \in m
    THEN "isb"
    ELSE IF "_MSC_VER" \in m /\ ("_M_ARM" \in m \/ "_M_ARM64" \in m)
    THEN "__yield"
    ELSE "std::this_thread::yield"

\* lines 19-27: the body YieldThread() is compiled to
YieldBody(m) ==
    IF "__SSE2__" \in m \/ "_M_AMD64" \in m \/ "_M_IX86_FP == 2" \in m
    THEN "_mm_pause"
    ELSE IF "_MSC_VER" \in m /\ ("_M_ARM" \in m \/ "_M_ARM64" \in m)
    THEN "__yield"
    ELSE IF "__aarch64__" \in m
    THEN "isb"
    ELSE "std::this_thread::yield"

\* A faulty YieldThread: the call takes a lock that a thread leaving its
\* loop keeps.
YieldThreadLocked(t) == \A u \in YieldThreads \ {t} : ~ydone[u]

\* No statement of the body waits for anything: a call can always be made.
YieldThreadReady(t) == TRUE

\* What a call by thread t leaves in the per-thread records: none of the
\* four statements has a memory operand, so only the caller's own progress
\* changes.
YieldThread(t, last) == [last EXCEPT ![t] = yinstr]

YieldIdle ==
    /\ ytarget = {}
    /\ yheader = "none"
    /\ yinstr = "none"
    /\ yiter = [t \in YieldThreads |-> 0]
    /\ ylast = [t \in YieldThreads |-> "none"]
    /\ ydone = [t \in YieldThreads |-> FALSE]

YieldInit ==
    /\ ytarget \in YieldTargets
    /\ yheader = "none"
    /\ yinstr = "none"
    /\ yiter = [t \in YieldThreads |-> 0]
    /\ ylast = [t \in YieldThreads |-> "none"]
    /\ ydone = [t \in YieldThreads |-> FALSE]

\* the translation unit is compiled for the target
YieldCompile ==
    /\ yinstr = "none"
    /\ yheader' = YieldInclude(ytarget)
    /\ yinstr' = YieldBody(ytarget)
    /\ UNCHANGED <<ytarget, yiter, ylast, ydone, build, scaleVars, selectVars, nowVars>>

\* one iteration of a busy-wait loop: for (...) YieldThread();
YieldCall(t) ==
    /\ yinstr # "none"
    /\ yiter[t] < LoopIterations
    /\ YieldThreadReady(t)
    /\ ylast' = YieldThread(t, ylast)
    /\ yiter' = [yiter EXCEPT ![t] = @ + 1]
    /\ UNCHANGED <<ytarget, yheader, yinstr, ydone, build, scaleVars, selectVars, nowVars>>

YieldLoopExit(t) ==
    /\ yinstr # "none"
    /\ yiter[t] = LoopIterations
    /\ ~ydone[t]
    /\ ydone' = [ydone EXCEPT ![t] = TRUE]
    /\ UNCHANGED <<ytarget, yheader, yinstr, yiter, ylast, build, scaleVars, selectVars, nowVars>>

YieldStep(t) == YieldCall(t) \/ YieldLoopExit(t)

YieldNext ==
    \/ YieldCompile
    \/ \E t \in YieldThreads : YieldCall(t)
    \/ \E t \in YieldThreads : YieldLoopExit(t)

\* ------------------------------------------------------------------------
\* TracyTimer.hpp: the raw counter readers and now()
\* ------------------------------------------------------------------------

NowThreadCount == 2
MaxCalls == 2

NowThreads == 1..NowThreadCount

ScaledClocks == {"cpu_clock", "win32_performance_counter"}
TimespecClocks == {"monotonic_raw", "monotonic"}

\* what the counter shows as time passes; the last reading is past what
\* fits in nanoseconds at 10 MHz
CounterReadings ==
    <<IntOf(123456789), MaxCounter10MHz, IAdd(MaxCounter10MHz, IntOf(1))>>

\* what clock_gettime reports at the same times; the last reading is
\* 2^63 - 1 nanoseconds, the largest the conversion holds
TimespecReadings ==
    << [sec |-> IntOf(1), nsec |-> IntOf(999999999)],
       [sec |-> IntOf(2), nsec |-> IntOf(0)],
       [sec |-> MaxFreq, nsec |-> IntOf(854775807)] >>

\* what an out-parameter holds when the call that should fill it failed
Garbage == {Zero, IntOf(-1)}

\* lines 84-89: the BOOL QueryPerformanceFrequency returns is dropped, and
\* freq is uninitialised when the call failed
query_performance_frequency(garbage) == IF osok THEN hwfreq ELSE garbage

\* lines 91-96
query_performance_counter(garbage) ==
    IF osok THEN CounterReadings[tick] ELSE garbage

\* lines 110-117 and 125-138: the system registers CNTVCT and CNTFRQ
read_cpu_clock == CounterReadings[tick]

read_cpu_clock_freq == hwfreq

\* lines 161-162 and 180-181: the int clock_gettime returns is dropped
clock_gettime(garbage) ==
    IF osok THEN TimespecReadings[tick] ELSE [sec |-> garbage, nsec |-> garbage]

\* lines 163 and 182: seconds(tv_sec) + nanoseconds(tv_nsec), the seconds
\* converted to int64_t nanoseconds by a multiplication that may overflow
TimespecSteps(sec, nsec) ==
    [whole |-> IMul(sec, period_den), prod |-> Zero, part |-> nsec,
     sum |-> IAdd(Wrap64(IMul(sec, period_den)), nsec)]

TimespecOutcome(steps) ==
    IF build.ftrapv /\ ~NoOverflow(steps)
    THEN Trapped
    ELSE Returned(Wrap64(steps.sum))

timespec_duration(sec, nsec) == TimespecOutcome(TimespecSteps(sec, nsec))

\* lines 212 and 242
ReadFrequencyOf(c, garbage) ==
    IF c = "cpu_clock" THEN read_cpu_clock_freq
    ELSE query_performance_frequency(garbage)

\* lines 213 and 243
ReadCounterOf(c, garbage) ==
    IF c = "cpu_clock" THEN read_cpu_clock
    ELSE query_performance_counter(garbage)

\* lines 214 and 244: the arguments are the two locals of this call
ScaleOf(c, freq, counter) ==
    IF c = "cpu_clock" THEN cpu_clock_scale_dispatch(freq, counter)
    ELSE qpc_scale_dispatch(freq, counter)

\* Faulty locals: declared static, so every call converts the same pair.
StaticLocals(t) == loc[1]

\* the locals of a call are automatic variables of that invocation
Locals(t) == loc[t]

NoLocals == [freq |-> Zero, counter |-> Zero, sec |-> Zero, nsec |-> Zero]

\* the calls of now() begun so far, by the threads 1..n
CallsOf(t) == Len(hist[t]) + IF pc[t] = "idle" THEN 0 ELSE 1

RECURSIVE CallsUpTo(_)
CallsUpTo(n) == IF n = 0 THEN 0 ELSE CallsOf(n) + CallsUpTo(n - 1)

MayCall == CallsUpTo(NowThreadCount) < MaxCalls

\* a divide fault or an overflow trap ends the process
Alive == \A t \in NowThreads : pc[t] # "trapped"

\* what the next statement of a call needs to run: now() takes no lock and
\* waits for nothing, so a thread of a running process always proceeds
NowReady(t) == Alive

NowIdle ==
    /\ clk = "none"
    /\ osok = TRUE
    /\ hwfreq = Zero
    /\ tick = 1
    /\ pc = [t \in NowThreads |-> "idle"]
    /\ loc = [t \in NowThreads |-> NoLocals]
    /\ hist = [t \in NowThreads |-> <<>>]

\* cpu_clock exists on 64-bit ARM only and reads registers, which cannot
\* fail; CNTFRQ may hold 0.  QueryPerformanceFrequency reports a nonzero
\* frequency when it succeeds, and nothing is reported when the calls fail.
NowInit ==
    /\ build \in Builds
    /\ clk \in ScaledClocks \cup TimespecClocks
    /\ osok \in BOOLEAN
    /\ hwfreq \in {Zero, IntOf(10000000), IntOf(19200000), IntOf(24000000)}
    /\ clk = "cpu_clock" => build.arch = "aarch64" /\ osok
    /\ clk = "win32_performance_counter" => hwfreq # Zero
    /\ clk = "win32_performance_counter" /\ ~osok => hwfreq = IntOf(10000000)
    /\ clk \in TimespecClocks => hwfreq = Zero
    /\ tick = 1
    /\ pc = [t \in NowThreads |-> "idle"]
    /\ loc = [t \in NowThreads |-> NoLocals]
    /\ hist = [t \in NowThreads |-> <<>>]

NowFrame == UNCHANGED <<build, clk, osok, hwfreq, scaleVars, selectVars, yieldVars>>

\* the counter advances
Tick ==
    /\ Alive
    /\ tick < Len(CounterReadings)
    /\ tick' = tick + 1
    /\ UNCHANGED <<pc, loc, hist>>
    /\ NowFrame

\* how a call ends: the Instant is returned to the caller, or the process
\* is stopped by the trap
NowEnd(t, in1, in2, outcome) ==
    /\ pc' = [pc EXCEPT ![t] = IF outcome.st = "ret" THEN "idle"
                               ELSE IF outcome.st = "trap" THEN "trapped"
                               ELSE outcome.st]
    /\ hist' = IF outcome.st = "ret"
               THEN [hist EXCEPT ![t] = Append(@, [in1 |-> in1, in2 |-> in2,
                                                   val |-> outcome.val])]
               ELSE hist
    /\ loc' = IF outcome.st = "ret" THEN [loc EXCEPT ![t] = NoLocals] ELSE loc

\* win32_performance_counter::now and cpu_clock::now, first statement
NowReadFrequency(t) ==
    /\ NowReady(t)
    /\ clk \in ScaledClocks
    /\ pc[t] = "idle"
    /\ MayCall
    /\ \E g \in Garbage :
        loc' = [loc EXCEPT ![t].freq = ReadFrequencyOf(clk, g)]
    /\ pc' = [pc EXCEPT ![t] = "have freq"]
    /\ UNCHANGED <<tick, hist>>
    /\ NowFrame

\* second statement
NowReadCounter(t) ==
    /\ NowReady(t)
    /\ pc[t] = "have freq"
    /\ \E g \in Garbage :
        loc' = [loc EXCEPT ![t].counter = ReadCounterOf(clk, g)]
    /\ pc' = [pc EXCEPT ![t] = "have counter"]
    /\ UNCHANGED <<tick, hist>>
    /\ NowFrame

\* third statement
NowScale(t) ==
    /\ NowReady(t)
    /\ pc[t] = "have counter"
    /\ NowEnd(t, loc[t].freq, loc[t].counter,
              ScaleOf(clk, Locals(t).freq, Locals(t).counter))
    /\ UNCHANGED tick
    /\ NowFrame

\* monotonic_raw::now and monotonic::now, the clock_gettime call
NowClockGettime(t) ==
    /\ NowReady(t)
    /\ clk \in TimespecClocks
    /\ pc[t] = "idle"
    /\ MayCall
    /\ \E g \in Garbage :
        loc' = [loc EXCEPT ![t].sec = clock_gettime(g).sec,
                           ![t].nsec = clock_gettime(g).nsec]
    /\ pc' = [pc EXCEPT ![t] = "have timespec"]
    /\ UNCHANGED <<tick, hist>>
    /\ NowFrame

\* the conversion and the return
NowConvert(t) ==
    /\ NowReady(t)
    /\ pc[t] = "have timespec"
    /\ NowEnd(t, loc[t].sec, loc[t].nsec,
              timespec_duration(Locals(t).sec, Locals(t).nsec))
    /\ UNCHANGED tick
    /\ NowFrame

NowStep(t) ==
    \/ NowReadFrequency(t)
    \/ NowReadCounter(t)
    \/ NowScale(t)
    \/ NowClockGettime(t)
    \/ NowConvert(t)

NowNext ==
    \/ Tick
    \/ \E t \in NowThreads : NowReadFrequency(t)
    \/ \E t \in NowThreads : NowReadCounter(t)
    \/ \E t \in NowThreads : NowScale(t)
    \/ \E t \in NowThreads : NowClockGettime(t)
    \/ \E t \in NowThreads : NowConvert(t)

ScaleKinds == <<"generic", "later", "10MHz", "24MHz", "qpc", "cpu">>

ScaleInit ==
    /\ build \in Builds
    /\ sfreq \in ScaleFreqs
    /\ scounter \in ScaleCounters
    /\ scounter2 \in {c \in ScaleCounters : ILe(scounter, c)}
    /\ spc = 0
    /\ ssteps = ScaleSteps(IntOf(1), Zero, period_den)
    /\ sres = [k \in DOMAIN ScaleKinds |-> NotCalled]
    /\ SelectIdle
    /\ YieldIdle
    /\ NowIdle

ScaleStore(k, outcome) ==
    /\ spc = k - 1
    /\ spc' = k
    /\ sres' = [sres EXCEPT ![k] = outcome]
    /\ UNCHANGED <<build, sfreq, scounter, scounter2, selectVars, yieldVars, nowVars>>

\* clock_scale_generic(sfreq, scounter, period::den)
CallGeneric ==
    /\ ScaleStore(1, clock_scale_generic(sfreq, scounter, period_den))
    /\ ssteps' = ScaleSteps(sfreq, scounter, period_den)

\* clock_scale_generic(sfreq, scounter2, period::den), a later reading
CallGenericLater ==
    /\ ScaleStore(2, clock_scale_generic(sfreq, scounter2, period_den))
    /\ UNCHANGED ssteps

Call10MHz ==
    /\ ScaleStore(3, clock_scale_10MHz(scounter, period_den))
    /\ UNCHANGED ssteps

Call24MHz ==
    /\ ScaleStore(4, clock_scale_24MHz(scounter, period_den))
    /\ UNCHANGED ssteps

CallQpcDispatch ==
    /\ ScaleStore(5, qpc_scale_dispatch(sfreq, scounter))
    /\ UNCHANGED ssteps

CallCpuDispatch ==
    /\ ScaleStore(6, cpu_clock_scale_dispatch(sfreq, scounter))
    /\ UNCHANGED ssteps

ScaleNext ==
    \/ CallGeneric
    \/ CallGenericLater
    \/ Call10MHz
    \/ Call24MHz
    \/ CallQpcDispatch
    \/ CallCpuDispatch

SpecScale == ScaleInit /\ [][ScaleNext]_vars

ScaleIdle ==
    /\ sfreq = Zero
    /\ scounter = Zero
    /\ scounter2 = Zero
    /\ spc = 0
    /\ ssteps = ScaleSteps(IntOf(1), Zero, period_den)
    /\ sres = [k \in DOMAIN ScaleKinds |-> NotCalled]

SelectStart ==
    /\ SelectInit
    /\ ScaleIdle
    /\ YieldIdle
    /\ NowIdle
    /\ build = [arch |-> "x86", ftrapv |-> FALSE]

SpecSelect == SelectStart /\ [][SelectNext]_vars

NowStart ==
    /\ NowInit
    /\ ScaleIdle
    /\ SelectIdle
    /\ YieldIdle

Spec == NowStart /\ [][NowNext]_vars

YieldStart ==
    /\ YieldInit
    /\ ScaleIdle
    /\ SelectIdle
    /\ NowIdle
    /\ build = [arch |-> "x86", ftrapv |-> FALSE]

\* every thread is scheduled again and again, and so is the compiler
SpecYield ==
    /\ YieldStart
    /\ [][YieldNext]_vars
    /\ WF_vars(YieldCompile)
    /\ \A t \in YieldThreads : WF_vars(YieldStep(t))

\* ------------------------------------------------------------------------
\* Properties of the scaling arithmetic (under SpecScale)
\* ------------------------------------------------------------------------

\* floor(c * 10^9 / f) in unbounded arithmetic, for f > 0
Exact(f, c) == IFloorDiv(IMul(c, period_den), f)

Positive(x) == ILt(Zero, x)

\* f * 10^9 and floor(c * 10^9 / f) are both at most 2^63 - 1
Representable(f, c) ==
    /\ ILe(IMul(f, period_den), INT64_MAX)
    /\ ILe(Exact(f, c), INT64_MAX)

\* C1 as stated: for every f > 0 and c in [0, 2^62) the generic scaling
\* returns floor(c * 10^9 / f).
C1_ExactForAllInputs ==
    (/\ sres[1].st # "none"
     /\ Positive(sfreq)
     /\ ILe(Zero, scounter) /\ ILt(scounter, Two62))
    => sres[1] = Returned(Exact(sfreq, scounter))

\* C1, amended: for every f > 0 with f * 10^9 <= 2^63 - 1 and every c in
\* [0, 2^62) with floor(c * 10^9 / f) <= 2^63 - 1, clock_scale_generic
\* returns exactly floor(c * 10^9 / f); f = 10_000_000, c = 123_456_789
\* gives 12_345_678_900.
C1_ExactWhenRepresentable ==
    /\ (/\ sres[1].st # "none"
        /\ Positive(sfreq)
        /\ ILe(Zero, scounter) /\ ILt(scounter, Two62)
        /\ Representable(sfreq, scounter))
       => sres[1] = Returned(Exact(sfreq, scounter))
    /\ (/\ sres[1].st # "none"
        /\ sfreq = IntOf(10000000)
        /\ scounter = IntOf(123456789))
       => sres[1] = Returned(Lit(<<123, 4567, 8900>>))

\* C1 witness: the largest frequency and the largest counter of the range,
\* with a nonzero remainder, scaled exactly
C1_Witness ==
    /\ sres[1].st = "ret"
    /\ sfreq = MaxFreq
    /\ scounter = ISub(Two62, IntOf(1))
    /\ Representable(sfreq, scounter)
    /\ ssteps.part # Zero
    /\ sres[1].val = Exact(sfreq, scounter)

\* C2 as stated: no intermediate result leaves the int64 range for
\* 0 < f <= 10^10 and 0 <= c <= 2^62.
C2_NoOverflowUpTo1e10 ==
    (/\ spc >= 1
     /\ Positive(sfreq) /\ ILe(sfreq, Lit(<<100, 0, 0>>))
     /\ ILe(Zero, scounter) /\ ILe(scounter, Two62))
    => NoOverflow(ssteps)

\* C2, amended: no intermediate result ((c / f) * den, (c mod f) * den,
\* whole + part) leaves the int64 range for every f with
\* 0 < f <= 9_223_372_036 (f * 10^9 <= 2^63 - 1) and every c with
\* 0 <= c <= 2^62 and floor(c * 10^9 / f) <= 2^63 - 1.
C2_NoOverflowWhenRepresentable ==
    (/\ spc >= 1
     /\ Positive(sfreq)
     /\ ILe(Zero, scounter) /\ ILe(scounter, Two62)
     /\ Representable(sfreq, scounter))
    => /\ NoOverflow(ssteps)
       /\ ILe(Zero, ssteps.whole) /\ ILe(Zero, ssteps.prod)

\* C2 witness: c = 2^62 at 1 GHz, where the naive product c * 10^9 does not
\* fit and the split computation does
C2_Witness ==
    /\ spc >= 1
    /\ sfreq = IntOf(1000000000)
    /\ scounter = Two62
    /\ ~InInt64(IMul(scounter, period_den))
    /\ NoOverflow(ssteps)
    /\ ssteps.sum = Two62

\* C3: the specialised paths and both dispatchers return what the generic
\* path returns, for every frequency and counter and every switch branch.
C3_SpecialisedEqualsGeneric ==
    /\ sres[3].st # "none"
       => sres[3] = clock_scale_generic(IntOf(10000000), scounter, period_den)
    /\ sres[4].st # "none"
       => sres[4] = clock_scale_generic(IntOf(24000000), scounter, period_den)
    /\ sres[5].st # "none" => sres[5] = sres[1]
    /\ sres[6].st # "none" => sres[6] = sres[1]

\* C3 witness: both dispatchers took the 24 MHz branch on a counter with a
\* remainder
C3_Witness ==
    /\ spc = 6
    /\ sfreq = IntOf(24000000)
    /\ scounter = IntOf(123456789)
    /\ sres[6].st = "ret" /\ sres[6].val # Zero
    /\ sres[5] = sres[6]

\* C10: for f > 0 and readings 0 <= c1 <= c2 scaled without overflow,
\* d = scale(f, c2) - scale(f, c1) is >= 0, differs from
\* (c2 - c1) * 10^9 / f by less than 1, and is the floor of that value or
\* the floor plus 1.
C10_DifferenceWithinOneNs ==
    (/\ spc >= 2
     /\ Positive(sfreq)
     /\ ILe(Zero, scounter) /\ ILe(scounter, scounter2)
     /\ NoOverflow(ssteps)
     /\ NoOverflow(ScaleSteps(sfreq, scounter2, period_den)))
    => LET d == ISub(sres[2].val, sres[1].val)
           ticks == IMul(ISub(scounter2, scounter), period_den)
           fl == IFloorDiv(ticks, sfreq)
           err == ISub(IMul(d, sfreq), ticks)
       IN  /\ sres[1].st = "ret" /\ sres[2].st = "ret"
           /\ ILe(Zero, d)
           /\ ILt(Neg(sfreq), err) /\ ILt(err, sfreq)
           /\ d = fl \/ d = IAdd(fl, IntOf(1))

\* C10 witness: c1 = 1, c2 = 123456789 at 3 Hz, where the difference of the
\* two Instants is the floor plus 1
C10_Witness ==
    /\ spc >= 2
    /\ sfreq = IntOf(3)
    /\ scounter = IntOf(1) /\ scounter2 = IntOf(123456789)
    /\ sres[1].st = "ret" /\ sres[2].st = "ret"
    /\ ISub(sres[2].val, sres[1].val)
         = IAdd(Exact(sfreq, ISub(scounter2, scounter)), IntOf(1))

\* ------------------------------------------------------------------------
\* Properties of the clock selection (under SpecSelect)
\* ------------------------------------------------------------------------

\* the capability flags of a target: what was defined before the header
ForceFallback == "TRACY_TIMER_FALLBACK" \in predefined
HasCycleCounter == "_M_ARM64" \in predefined \/ "__aarch64__" \in predefined
HasMonotonicRaw == "CLOCK_MONOTONIC_RAW" \in predefined
HasMonotonic == "CLOCK_MONOTONIC" \in predefined
HasPerformanceCounter == "_WIN32" \in predefined

\* the precedence order of the selection policy, first match first
Precedence ==
    << <<ForceFallback, "std::chrono::steady_clock">>,
       <<HasCycleCounter, "cpu_clock">>,
       <<HasMonotonicRaw, "monotonic_raw">>,
       <<HasMonotonic, "monotonic">>,
       <<HasPerformanceCounter, "win32_performance_counter">>,
       <<TRUE, "std::chrono::steady_clock">> >>

FirstMatch ==
    Precedence[CHOOSE i \in DOMAIN Precedence :
                  /\ Precedence[i][1]
                  /\ \A j \in 1..(i - 1) : ~Precedence[j][1]][2]

\* C4: for every combination of the capability flags high_res_time names
\* exactly one variant, the first match of the precedence order, a clock the
\* header declared (or the generic steady clock); it depends on the five
\* flags only, and is set once.
C4_SelectionFollowsPrecedence ==
    /\ ppc \in {"line 273", "done"}
       => /\ alias = FirstMatch
          /\ alias \in structs \cup {"std::chrono::steady_clock"}
    /\ ppc \notin {"line 273", "done"} => alias = "none"

\* C4 witness: a 64-bit ARM Windows target that also has both monotonic
\* clocks resolves to the cycle counter
C4_Witness ==
    /\ ppc = "done"
    /\ ~ForceFallback /\ HasCycleCounter /\ HasMonotonicRaw
    /\ HasMonotonic /\ HasPerformanceCounter
    /\ alias = "cpu_clock"

\* ------------------------------------------------------------------------
\* Properties of YieldThread (under SpecYield)
\* ------------------------------------------------------------------------

\* a step of the yield machine touches, among the per-thread records, only
\* those of one thread, and writes nothing the threads share
YieldStepsArePrivate ==
    \/ yinstr = "none"
    \/ /\ UNCHANGED <<ytarget, yheader, yinstr>>
       /\ \E t \in YieldThreads :
            \A u \in YieldThreads \ {t} :
                /\ yiter'[u] = yiter[u]
                /\ ylast'[u] = ylast[u]
                /\ ydone'[u] = ydone[u]

\* C8: every thread that calls YieldThread() in a loop of LoopIterations
\* iterations leaves the loop, whatever the other threads do, and no call
\* reads or writes the state of another thread.
C8_YieldLoopsTerminate ==
    /\ \A t \in YieldThreads : <>(ydone[t])
    /\ [][YieldStepsArePrivate]_vars

\* C8 witness: one thread has left its loop while another has not made a
\* single call
C8_Witness ==
    \E t, u \in YieldThreads :
        /\ ydone[t] /\ yiter[t] = LoopIterations
        /\ yiter[u] = 0 /\ ylast[u] = "none"

IsX86WithSSE2 == ytarget \cap X86Macros # {}
IsArm == ytarget \cap (Arm32Macros \cup Arm64Macros) # {}
IsMsvcArm == "_MSC_VER" \in ytarget /\ ({"_M_ARM", "_M_ARM64"} \cap ytarget # {})

\* C9 as stated: pause on every x86 target with SSE2, an architectural
\* yield/isb instruction on every ARM target (32-bit or 64-bit, MSVC or
\* not), the generic OS thread yield on every other target.
C9_EveryArmTargetYields ==
    yinstr # "none" =>
        /\ IsX86WithSSE2 => yinstr = "_mm_pause"
        /\ IsArm => yinstr \in {"__yield", "isb"}
        /\ ~IsX86WithSSE2 /\ ~IsArm => yinstr = "std::this_thread::yield"

\* C9, amended: YieldThread() executes pause on every x86 target with SSE2,
\* __yield on every ARM target compiled by MSVC (_M_ARM or _M_ARM64), isb
\* on every other target that defines __aarch64__, and the generic OS
\* thread yield on every other target, which includes the ARM targets that
\* are neither; exactly one of them is chosen for every combination of
\* target flags, its header is included, and every call executes it.
C9_HintPerArchitecture ==
    yinstr # "none" =>
        /\ IsX86WithSSE2 => yinstr = "_mm_pause" /\ yheader = "<emmintrin.h>"
        /\ IsMsvcArm => yinstr = "__yield" /\ yheader = "intrinsic(__yield)"
        /\ "__aarch64__" \in ytarget /\ ~IsMsvcArm => yinstr = "isb"
        /\ ~IsX86WithSSE2 /\ ~IsMsvcArm /\ "__aarch64__" \notin ytarget
           => yinstr = "std::this_thread::yield" /\ yheader = "<thread>"
        /\ \A t \in YieldThreads : yiter[t] > 0 => ylast[t] = yinstr

\* C9 witness: a 32-bit ARM target not compiled by MSVC has called the
\* generic OS thread yield
C9_Witness ==
    /\ ytarget = {"__arm__"}
    /\ \E t \in YieldThreads :
        yiter[t] > 0 /\ ylast[t] = "std::this_thread::yield"


\* ------------------------------------------------------------------------
\* now(): monotonicity, concurrency, completion
\* ------------------------------------------------------------------------

\* the intermediate results of the conversion a returned call made
EntrySteps(e) ==
    IF clk \in ScaledClocks
    THEN ScaleSteps(e.in1, e.in2, period_den)
    ELSE TimespecSteps(e.in1, e.in2)

EntryClean(e) == NoOverflow(EntrySteps(e))

\* what the call computes from the two values it read
EntryOutcome(e) ==
    IF clk \in ScaledClocks
    THEN ScaleOf(clk, e.in1, e.in2)
    ELSE timespec_duration(e.in1, e.in2)

\* a timespec holds 0 <= tv_nsec < 10^9
Normalised(e) == ILe(Zero, e.in2) /\ ILt(e.in2, period_den)

\* the raw reading of a is not after that of b: the same positive
\* frequency and counters in order, or timespecs in order
RawLe(a, b) ==
    IF clk \in ScaledClocks
    THEN Positive(a.in1) /\ b.in1 = a.in1 /\ ILe(a.in2, b.in2)
    ELSE /\ Normalised(a) /\ Normalised(b)
         /\ (ILt(a.in1, b.in1) \/ (a.in1 = b.in1 /\ ILe(a.in2, b.in2)))

\* the pairs of calls a thread made one after the other
CallPairs(t) ==
    {p \in (1..Len(hist[t])) \X (1..Len(hist[t])) : p[1] < p[2]}

MonotoneForAllReadings ==
    \A t \in NowThreads : \A p \in CallPairs(t) :
        RawLe(hist[t][p[1]], hist[t][p[2]])
        => ILe(hist[t][p[1]].val, hist[t][p[2]].val)

MonotoneWithoutOverflow ==
    \A t \in NowThreads : \A p \in CallPairs(t) :
        (/\ RawLe(hist[t][p[1]], hist[t][p[2]])
         /\ EntryClean(hist[t][p[1]])
         /\ EntryClean(hist[t][p[2]]))
        => ILe(hist[t][p[1]].val, hist[t][p[2]].val)

\* the hardware and the OS deliver what the variants assume
ReadingsInOrder ==
    /\ osok
    /\ clk \in ScaledClocks => Positive(hwfreq)

\* C5 as stated: for each variant, two calls t1 then t2 in program order on
\* one thread, with a non-decreasing raw reading and the same positive
\* frequency, return t1 <= t2.
C5_MonotoneForAllReadings ==
    /\ MonotoneForAllReadings
    /\ ReadingsInOrder =>
        \A t \in NowThreads : \A p \in CallPairs(t) :
            RawLe(hist[t][p[1]], hist[t][p[2]])

\* C5, amended: for each of cpu_clock, win32_performance_counter,
\* monotonic_raw and monotonic, two calls t1 then t2 in program order on one
\* thread, with a non-decreasing raw reading (0 <= tv_nsec < 10^9 for the
\* timespec variants) and the same positive frequency, return t1 <= t2
\* provided neither conversion leaves the int64 range; the readings of
\* successive calls are in that order whenever the OS calls succeed and the
\* frequency is positive.
C5_MonotoneWithoutOverflow ==
    /\ MonotoneWithoutOverflow
    /\ ReadingsInOrder =>
        \A t \in NowThreads : \A p \in CallPairs(t) :
            RawLe(hist[t][p[1]], hist[t][p[2]])

\* C5 witness: cpu_clock at 24 MHz, one thread returned twice with the
\* counter advanced in between and got a strictly later Instant
C5_Witness ==
    /\ clk = "cpu_clock"
    /\ hwfreq = IntOf(24000000)
    /\ \E t \in NowThreads :
        /\ Len(hist[t]) = 2
        /\ ILt(hist[t][1].in2, hist[t][2].in2)
        /\ EntryClean(hist[t][1]) /\ EntryClean(hist[t][2])
        /\ ILt(hist[t][1].val, hist[t][2].val)

\* every returned Instant is the conversion of the values that call read
EntriesAreOwn ==
    \A t \in NowThreads : \A i \in 1..Len(hist[t]) :
        EntryOutcome(hist[t][i]) = Returned(hist[t][i].val)

InCall(t) == pc[t] \in {"have freq", "have counter", "have timespec"}

\* a call can take its next step whatever the other threads do
NoCallWaits ==
    \A t \in NowThreads :
        /\ Alive => NowReady(t)
        /\ Alive /\ pc[t] = "have freq" => ENABLED NowReadCounter(t)
        /\ Alive /\ pc[t] = "idle" /\ MayCall
           => ENABLED (NowReadFrequency(t) \/ NowClockGettime(t))

OthersUnchanged(t) ==
    \A u \in NowThreads \ {t} :
        pc'[u] = pc[u] /\ loc'[u] = loc[u] /\ hist'[u] = hist[u]

\* a step of a call writes the pc, the locals and the result of its own
\* thread and nothing else; the counter moves by itself only
NowStepsArePrivate ==
    /\ UNCHANGED <<build, clk, osok, hwfreq>>
    /\ \A t \in NowThreads :
        (pc'[t] # pc[t] \/ loc'[t] # loc[t] \/ hist'[t] # hist[t])
        => OthersUnchanged(t) /\ tick' = tick
    /\ tick' # tick => UNCHANGED <<pc, loc, hist>>

Pending(t) ==
    IF clk \in ScaledClocks
    THEN [in1 |-> loc[t].freq, in2 |-> loc[t].counter]
    ELSE [in1 |-> loc[t].sec, in2 |-> loc[t].nsec]

\* the values a stopped call holds are outside what the conversion
\* supports: a zero frequency on x86, or an overflow in a trapping build
OutsidePreconditions(t) ==
    IF clk \in ScaledClocks
    THEN \/ build.arch = "x86" /\ loc[t].freq = Zero
         \/ build.ftrapv /\ ~NoOverflow(ScaleSteps(loc[t].freq, loc[t].counter, period_den))
    ELSE build.ftrapv /\ ~NoOverflow(TimespecSteps(loc[t].sec, loc[t].nsec))

WithinPreconditions(t) ==
    IF clk \in ScaledClocks
    THEN /\ loc[t].freq # Zero
         /\ NoOverflow(ScaleSteps(loc[t].freq, loc[t].counter, period_den))
    ELSE NoOverflow(TimespecSteps(loc[t].sec, loc[t].nsec))

AtConversion(t) == pc[t] \in {"have counter", "have timespec"}

\* C7 as stated: every call completes by returning an Instant, whatever
\* the frequency, counter or OS read returned.
C7_EveryCallReturns ==
    \A t \in NowThreads : pc[t] # "trapped"

\* C7, amended: now() has no error path, retry or exception: a call whose
\* frequency read is nonzero and whose conversion stays within int64
\* completes by returning an Instant, whatever the OS calls reported; the
\* results of the OS calls are not examined, so a failed call's
\* out-parameter is converted as it is; freq == 0 is not guarded: the
\* division is executed, which yields 0 on AArch64 and stops the process
\* on x86; a call is stopped only outside these preconditions.
C7_ReturnsWithinPreconditions ==
    /\ \A t \in NowThreads :
        /\ pc[t] \in {"idle", "have freq", "have counter", "have timespec", "trapped"}
        /\ pc[t] = "trapped" => OutsidePreconditions(t)
        /\ (Alive /\ InCall(t)) => NowReady(t)
        /\ (AtConversion(t) /\ WithinPreconditions(t))
           => EntryOutcome(Pending(t)).st = "ret"
        /\ \A i \in 1..Len(hist[t]) :
            /\ ~osok => hist[t][i].in1 \in Garbage /\ hist[t][i].in2 \in Garbage
            /\ (clk \in ScaledClocks /\ hist[t][i].in1 = Zero)
               => build.arch = "aarch64" /\ hist[t][i].val = Zero
    /\ \A t \in NowThreads :
        (clk \in ScaledClocks /\ pc[t] = "have counter" /\ loc[t].freq = Zero)
        => EntryOutcome(Pending(t)) =
               IF build.arch = "x86" \/ (build.ftrapv /\ ~EntryClean(Pending(t)))
               THEN Trapped
               ELSE Returned(Zero)

\* C7 witness: the OS calls failed, the frequency left in the
\* out-parameter was 0, and the call still returned an Instant
C7_Witness ==
    /\ clk = "win32_performance_counter"
    /\ ~osok
    /\ build.arch = "aarch64"
    /\ \E t \in NowThreads :
        /\ Len(hist[t]) >= 1
        /\ hist[t][1].in1 = Zero
        /\ hist[t][1].in2 = IntOf(-1)
        /\ hist[t][1].val = Zero

=============================================================================
